---- MODULE Spec2Model ----
(***************************************************************************)
(* dad-pass: a one-time-read secret store.  Two deployments of the same   *)
(* HTTP contract are modelled:                                             *)
(*   "container"  - the Flask app, src/backend-container/app/app.py        *)
(*   "serverless" - the Lambda handler, src/backend/src/lambda_function.py *)
(* A behaviour fixes one deployment (backend) and runs its handlers        *)
(* against one DynamoDB table.  Every handler is split at its store calls  *)
(* (get_item, delete_item, put_item), which are the only points where      *)
(* concurrent requests can observe each other.                             *)
(***************************************************************************)
EXTENDS Integers, Sequences, FiniteSets, TLC

\* ------------------------------------------------------------------ bounds
MaxReq == 3          \* requests per behaviour of Spec
MaxReqSeq == 4       \* requests per behaviour of SpecSeq
MaxReqIO == 2        \* requests per behaviour of SpecIO
MaxReqCrypto == 5    \* requests per behaviour of SpecCrypto
MaxTicks == 2        \* clock advances per behaviour
MaxFaults == 1       \* failing store calls per behaviour
MaxCalls == 2        \* direct calls of each cipher function per behaviour
MaxLen == 2          \* longest id asked of generate_random_id directly
StartTime == 1700000000   \* int(time.time()) when the process starts serving

\* ------------------------------------------------------------------ values
\* A JSON / DynamoDB attribute value.  t is the type tag:
\*   "absent" the field is not in the dict, "null" None, "str" a str (s),
\*   "int" an int or Decimal (n), "fernet" a Fernet token (a str in the code):
\*   s is the plaintext it authenticates and carries, n the IV drawn for it,
\*   k the signing/encryption key.  "raise" stands for a raised exception.
V(t, s, n, k) == [t |-> t, s |-> s, n |-> n, k |-> k]
Absent == V("absent", "", 0, "")
NullV == V("null", "", 0, "")
StrV(s) == V("str", s, 0, "")
IntV(n) == V("int", "", n, "")
Raised == V("raise", "", 0, "")

\* The keys random.choices can produce are modelled by two of them.
KeySpace == {"aaaaaaaaaa", "Zz9Zz9Zz9Z"}

\* The population generate_random_id draws from.
Alphabet ==
  <<"a", "b", "c", "d", "e", "f", "g", "h", "i", "j", "k", "l", "m",
    "n", "o", "p", "q", "r", "s", "t", "u", "v", "w", "x", "y", "z",
    "A", "B", "C", "D", "E", "F", "G", "H", "I", "J", "K", "L", "M",
    "N", "O", "P", "Q", "R", "S", "T", "U", "V", "W", "X", "Y", "Z",
    "0", "1", "2", "3", "4", "5", "6", "7", "8", "9">>

\* Mutant of generate_random_id: one character too few (range(length - 1)).
generate_random_id_Short(length, draws) ==
  [i \in 1..(length - 1) |-> Alphabet[draws[i]]]

\* ''.join(random.choices(Alphabet, k=length)): draws[i] is the index that
\* random.choices picks for position i.
generate_random_id(length, draws) == [i \in 1..length |-> Alphabet[draws[i]]]

\* The draws that give the keys of KeySpace, and the characters of a key.
KeyDraws(k) ==
  CASE k = "aaaaaaaaaa" -> [i \in 1..10 |-> 1]
    [] k = "Zz9Zz9Zz9Z" -> <<52, 26, 62, 52, 26, 62, 52, 26, 62, 52>>
KeyChars(k) == generate_random_id(10, KeyDraws(k))

\* app.py:24-29, lambda_function.py:24-29
TtlNames == {"15min", "1hour", "1day", "5days"}
TTL_OPTIONS == [o \in TtlNames |->
                  CASE o = "15min" -> 900
                    [] o = "1hour" -> 3600
                    [] o = "1day" -> 86400
                    [] o = "5days" -> 432000]

\* TTL_OPTIONS.get(ttl_option, TTL_OPTIONS['5days'])
TtlDuration(ttl_option) ==
  IF ttl_option.t = "str" /\ ttl_option.s \in TtlNames
    THEN TTL_OPTIONS[ttl_option.s]
    ELSE TTL_OPTIONS["5days"]

\* The value of the SSM parameter '/dad-pass/encryption-key'.
MASTER_KEY == "ssm:/dad-pass/encryption-key"

\* ------------------------------------------------------------------ state
\* backend  the deployment that serves the requests
\* now      the wall clock, int(time.time())
\* ticks    how often the clock was seen to advance (bounded by MaxTicks)
\* faults   how many store calls have failed (bounded by MaxFaults)
\* store    the DynamoDB table: messageKey -> item
\* writer   history: the request whose put_item wrote the record now under a key
\* req      the requests: inputs, position in the handler, locals, response
\* process  the serving process: its phase ("import" while the module is being
\*          imported, then "serving" or "failed"), how often it has loaded the
\*          master key, and its module global _MASTER_KEY
\* direct   direct calls of encrypt_message, decrypt_message and
\*          generate_random_id (as the unit tests make them), with their results
VARIABLES backend, now, ticks, faults, store, writer, req, direct, process

vars == <<backend, now, ticks, faults, store, writer, req, direct, process>>

\* A process that has not executed its module yet: _MASTER_KEY is not bound.
NotStarted == [phase |-> "import", loads |-> 0, key |-> "<unbound>"]

\* _get_master_key(): the module global.
get_master_key == process.key

\* ------------------------------------------------------------------ text
\* The strings of the model are names of Python str values; CodePoints gives
\* the code points of the str a name stands for.  The names are written as
\* JSON writes the str: "\u00e9\u20ac" is two characters of two and three
\* UTF-8 bytes, "\U0001f510" one of four bytes, "\ud83d" a lone surrogate
\* (json.loads accepts it).
Texts == {"", "hi", "\\u00e9\\u20ac", "\\U0001f510", "\\ud83d"}
CodePoints(s) ==
  CASE s = "" -> <<>>
    [] s = "hi" -> <<104, 105>>
    [] s = "\\u00e9\\u20ac" -> <<233, 8364>>
    [] s = "\\U0001f510" -> <<128272>>
    [] s = "\\ud83d" -> <<55357>>

\* str.encode('utf-8') raises UnicodeEncodeError on a surrogate code point.
Encodable(cps) == \A i \in 1..Len(cps) : cps[i] \notin 55296..57343

\* The UTF-8 bytes of one code point.
Utf8Bytes(c) ==
  IF c < 128 THEN <<c>>
  ELSE IF c < 2048 THEN <<192 + (c \div 64), 128 + (c % 64)>>
  ELSE IF c < 65536
    THEN <<224 + (c \div 4096), 128 + ((c \div 64) % 64), 128 + (c % 64)>>
  ELSE <<240 + (c \div 262144), 128 + ((c \div 4096) % 64),
         128 + ((c \div 64) % 64), 128 + (c % 64)>>

\* str.encode('utf-8') of an encodable str.
RECURSIVE Utf8Encode(_)
Utf8Encode(cps) ==
  IF cps = <<>> THEN <<>> ELSE Utf8Bytes(Head(cps)) \o Utf8Encode(Tail(cps))

\* The number of bytes the sequence that starts with lead byte b takes
\* (0: b cannot start a sequence).
Utf8Width(b) ==
  IF b < 128 THEN 1
  ELSE IF b \in 194..223 THEN 2
  ELSE IF b \in 224..239 THEN 3
  ELSE IF b \in 240..244 THEN 4
  ELSE 0

\* The code point of one complete sequence of bytes.
Utf8CodePoint(bs) ==
  CASE Len(bs) = 1 -> bs[1]
    [] Len(bs) = 2 -> (bs[1] - 192) * 64 + (bs[2] - 128)
    [] Len(bs) = 3 -> (bs[1] - 224) * 4096 + (bs[2] - 128) * 64 + (bs[3] - 128)
    [] Len(bs) = 4 -> (bs[1] - 240) * 262144 + (bs[2] - 128) * 4096
                        + (bs[3] - 128) * 64 + (bs[4] - 128)

\* bytes.decode('utf-8'): the code points, or <<-1>> for UnicodeDecodeError.
RECURSIVE Utf8Decode(_)
Utf8Decode(bs) ==
  IF bs = <<>> THEN <<>>
  ELSE LET w == Utf8Width(Head(bs))
       IN IF w = 0 \/ w > Len(bs)
               \/ \E i \in 2..w : bs[i] \notin 128..191
            THEN <<-1>>
            ELSE LET rest == Utf8Decode(SubSeq(bs, w + 1, Len(bs)))
                 IN IF rest = <<-1>> THEN <<-1>>
                    ELSE <<Utf8CodePoint(SubSeq(bs, 1, w))>> \o rest

\* The name of the str with these code points.
StrOf(cps) == CHOOSE s \in Texts : CodePoints(s) = cps

\* ------------------------------------------------------------------ cipher
\* The bytes a Fernet token holds encrypted: the UTF-8 bytes of the text s.
Payload(token) == Utf8Encode(CodePoints(token.s))

\* Mutant of encrypt_message: the token is made with a fixed IV, so that the
\* encryption is deterministic.
encrypt_message_FixedIV(plaintext, iv) ==
  IF plaintext.t = "str" /\ Encodable(CodePoints(plaintext.s))
    THEN V("fernet", plaintext.s, 0, get_master_key)
    ELSE Raised

\* Fernet(_MASTER_KEY).encrypt(plaintext.encode('utf-8')): a non-str plaintext
\* has no .encode and a str with a surrogate does not encode; the exception is
\* re-raised.  The token carries the payload, the IV drawn for it, and an HMAC
\* that verifies under the key it was made with (k).
encrypt_message(plaintext, iv) ==
  IF plaintext.t = "str" /\ Encodable(CodePoints(plaintext.s))
    THEN V("fernet", plaintext.s, iv, get_master_key)
    ELSE Raised

\* Mutant of decrypt_message: the HMAC of the token is not verified.
decrypt_message_NoVerify(ciphertext) ==
  IF ciphertext.t = "fernet"
    THEN LET cps == Utf8Decode(Payload(ciphertext))
         IN IF cps = <<-1>> THEN Raised ELSE StrV(StrOf(cps))
    ELSE Raised

\* Mutant of decrypt_message: the decrypted bytes are decoded one byte to
\* one character (.decode('latin-1')) instead of as UTF-8.
decrypt_message_Latin1(ciphertext) ==
  IF ciphertext.t = "fernet" /\ ciphertext.k = get_master_key
    THEN LET cps == Payload(ciphertext)
         IN IF \E s \in Texts : CodePoints(s) = cps
              THEN StrV(StrOf(cps)) ELSE StrV("mojibake")
    ELSE Raised

\* Fernet(_MASTER_KEY).decrypt(ciphertext.encode('utf-8')).decode('utf-8'):
\* anything that is not a well-formed token whose HMAC verifies under the
\* master key raises InvalidToken, which is re-raised.
decrypt_message(ciphertext) ==
  IF ciphertext.t = "fernet" /\ ciphertext.k = get_master_key
    THEN LET cps == Utf8Decode(Payload(ciphertext))
         IN IF cps = <<-1>> THEN Raised ELSE StrV(StrOf(cps))
    ELSE Raised

\* ------------------------------------------------------------------ items
Fields == {"messageKey", "ttl", "encryptedMessage", "ttlOption", "message"}
NoItem == [f \in Fields |-> Absent]

\* A request body as request.get_json() / json_body returns it.
BodyFields == {"message", "ttlOption", "messageKey", "ttl"}
Body(m, o, mk, t) == [message |-> m, ttlOption |-> o, messageKey |-> mk, ttl |-> t]

\* A response: HTTP status and the JSON object's fields.
Resp(st, m, o, mk, e) ==
  [status |-> st, message |-> m, ttlOption |-> o, messageKey |-> mk, error |-> e]
NoResp == Resp(0, Absent, Absent, Absent, Absent)
NotAvailable == Resp(200, StrV("Message is no longer available"), Absent, Absent, Absent)
MessageRequired == Resp(400, Absent, Absent, Absent, StrV("Message is required"))
KeyCollision ==
  Resp(500, Absent, Absent, Absent,
       StrV("Key collision occurred, this is rare. Please try again."))
FailedToCreate == Resp(500, Absent, Absent, Absent, StrV("Failed to create message"))

\* The requests of a behaviour, numbered in the order they arrive.
MaxOf(a, b) == IF a >= b THEN a ELSE b
Requests == 1..MaxOf(MaxOf(MaxReq, MaxReqCrypto), MaxOf(MaxReqSeq, MaxReqIO))

IdleReq ==
  [op |-> "none", pc |-> "idle", key |-> "", body |-> Body(Absent, Absent, Absent, Absent),
   item |-> NoItem, current_time |-> 0, resp |-> NoResp,
   arrived |-> 0, by |-> "", src |-> 0, keyTaken |-> FALSE,
   gets |-> 0, dels |-> 0, puts |-> 0, stored |-> FALSE, faulted |-> FALSE]

\* No direct call has been made.
NoCalls ==
  [enc |-> <<>>,
   dec |-> {},
   id |-> [length |-> -1, out |-> <<>>]]

Init ==
  /\ backend \in {"container", "serverless"}
  /\ now = StartTime
  /\ ticks = 0
  /\ faults = 0
  /\ store = [k \in KeySpace |-> NoItem]
  /\ writer = [k \in KeySpace |-> 0]
  /\ req = [r \in Requests |-> IdleReq]
  /\ direct = NoCalls
  /\ process = NotStarted

\* ------------------------------------------------------------------ helpers
Active(r) == req[r].pc \notin {"idle", "done"}

\* Requests are numbered in the order they arrive, and reach the handlers of
\* a process that is serving.
NextToArrive(r) ==
  /\ process.phase = "serving"
  /\ req[r].op = "none" /\ (IF r = 1 THEN TRUE ELSE req[r - 1].op # "none")

\* os.urandom(16) inside Fernet.encrypt: a value no other call draws.
FreshIV(r) == r

\* Mutant of TtlValue: a ttl that is no number counts as 'never expires'.
TtlValue_Forever(item) ==
  IF item.ttl.t = "int" THEN item.ttl.n ELSE StartTime + TTL_OPTIONS["5days"]

\* ttl = item.get('ttl', 0); int(ttl) if isinstance(ttl, (int, Decimal)) else 0
TtlValue(item) == IF item.ttl.t = "int" THEN item.ttl.n ELSE 0

\* Mutant of IsExpired: a record is expired from the second of its ttl on.
IsExpired_Inclusive(item, current_time) == TtlValue(item) <= current_time

\* Mutant of IsExpired: a record is kept for one second past its ttl.
IsExpired_Lenient(item, current_time) == TtlValue(item) + 1 < current_time

\* if ttl_value < current_time
IsExpired(item, current_time) == TtlValue(item) < current_time

\* Mutant of AttributeNotExists: put_item without the ConditionExpression.
AttributeNotExists_Unconditional(item) == TRUE

\* ConditionExpression='attribute_not_exists(messageKey)', evaluated by the
\* store against the record under the primary key of the item being put.
AttributeNotExists(item) == store[item.messageKey.s] = NoItem

\* Mutant of get_item: the record under another key is returned.
get_item_Other(k) == store[CHOOSE x \in KeySpace : x # k]

\* table.get_item(Key={'messageKey': k}): the record, NoItem when there is none.
get_item(k) == store[k]

\* Mutant of delete_item: the call returns without removing the record.
delete_item_Noop(k) == store

\* table.delete_item(Key={'messageKey': k}): the table afterwards.
delete_item(k) == [store EXCEPT ![k] = NoItem]

\* table.put_item(Item=item, ...) once the condition holds: the table afterwards.
put_item(item) == [store EXCEPT ![item.messageKey.s] = item]

\* message_in.get('ttlOption', '5days') / message_in.pop('ttlOption', '5days')
TtlOptionOf(message_in) ==
  IF message_in.ttlOption = Absent THEN StrV("5days") ELSE message_in.ttlOption

\* int(time.time()) + ttl_duration
TtlTimestamp(message_in, t) == t + TtlDuration(TtlOptionOf(message_in))

\* app.py:186-191: the item the Flask handler stores.
ContainerItem(message_key, message_in, t, iv) ==
  [messageKey |-> StrV(message_key),
   ttl |-> IntV(TtlTimestamp(message_in, t)),
   encryptedMessage |-> encrypt_message(message_in.message, iv),
   ttlOption |-> TtlOptionOf(message_in),
   message |-> Absent]

\* lambda_function.py:79-88: ttlOption is popped from the body, and the rest of
\* the body is spread over messageKey and ttl ({..., **message_in}).
ServerlessItem(message_key, message_in, t) ==
  [messageKey |-> IF message_in.messageKey = Absent
                    THEN StrV(message_key) ELSE message_in.messageKey,
   ttl |-> IF message_in.ttl = Absent
             THEN IntV(TtlTimestamp(message_in, t)) ELSE message_in.ttl,
   encryptedMessage |-> Absent,
   ttlOption |-> Absent,
   message |-> message_in.message]

\* Mutant of ContainerReadResponse: a decryption error is reported to the
\* caller as such.
ContainerReadResponse_Detail(item) ==
  LET encrypted_message ==
        IF item.encryptedMessage = Absent THEN StrV("") ELSE item.encryptedMessage
      decrypted_message == decrypt_message(encrypted_message)
  IN IF decrypted_message = Raised
       THEN Resp(500, Absent, Absent, Absent, StrV("Decryption failed: InvalidToken"))
       ELSE Resp(200, decrypted_message,
                 IF item.ttlOption = Absent THEN StrV("5days") ELSE item.ttlOption,
                 Absent, Absent)

\* app.py:150-157: decrypt and answer; a decryption error is caught at 159-161.
ContainerReadResponse(item) ==
  LET encrypted_message ==
        IF item.encryptedMessage = Absent THEN StrV("") ELSE item.encryptedMessage
      decrypted_message == decrypt_message(encrypted_message)
  IN IF decrypted_message = Raised
       THEN NotAvailable
       ELSE Resp(200, decrypted_message,
                 IF item.ttlOption = Absent THEN StrV("5days") ELSE item.ttlOption,
                 Absent, Absent)

\* lambda_function.py:63-64: the item without messageKey and ttl.
ServerlessReadResponse(item) ==
  Resp(200, item.message, item.ttlOption, Absent, Absent)

\* get_message's answer on the live branch.
ReadResponse(item) ==
  IF backend = "container" THEN ContainerReadResponse(item) ELSE ServerlessReadResponse(item)

\* ------------------------------------------------------------------ clock
\* time.time(): d seconds have passed since the clock was last read.  Time
\* passing is only ever observed where the clock is read (create_message,
\* get_message's expiry check, the store's TTL sweep), so the clock advances
\* there; a step with d = 0 reads the clock within the same second.
Elapse(d) ==
  IF d = 0
    THEN now' = now /\ ticks' = ticks
    ELSE ticks < MaxTicks /\ ticks' = ticks + 1 /\ now' = now + d

\* ------------------------------------------------------------------ process start
\* _load_master_key_from_ssm(): the parameter's value, or the exception of
\* ssm.get_parameter, which is logged and re-raised.
load_master_key_from_ssm(ssm_ok) == IF ssm_ok THEN StrV(MASTER_KEY) ELSE Raised

\* The process imports its handler module.  app.py binds
\* _MASTER_KEY = _load_master_key_from_ssm() at module level, before the routes
\* are defined: an exception there ends the import and the process never
\* serves.  lambda_function.py does not import utils, so _load_master_key_from_ssm
\* is not called in the Lambda handler's process.
ModuleImport(ssm_ok) ==
  /\ process.phase = "import"
  /\ process' =
       IF backend = "container"
         THEN LET key == load_master_key_from_ssm(ssm_ok)
              IN IF key = Raised
                   THEN [process EXCEPT !.phase = "failed", !.loads = @ + 1]
                   ELSE [phase |-> "serving", loads |-> process.loads + 1, key |-> key.s]
         ELSE [process EXCEPT !.phase = "serving"]
  /\ UNCHANGED <<backend, now, ticks, faults, store, writer, req, direct>>

\* ------------------------------------------------------------------ Create
\* create_message up to the put_item call: key generation, validation (Flask
\* only), TTL, encryption (Flask only).
CreateMessage(r, message_in, message_key, d) ==
  /\ NextToArrive(r)
  /\ Elapse(d)
  /\ LET base == [req[r] EXCEPT !.op = "create", !.key = message_key,
                                !.body = message_in, !.arrived = now',
                                !.by = backend,
                                !.current_time = now']
         citem == ContainerItem(message_key, message_in, now', FreshIV(r))
     IN req' = [req EXCEPT ![r] =
          IF backend = "container"
            THEN IF message_in.message = Absent
                   THEN [base EXCEPT !.pc = "done", !.resp = MessageRequired]
                 ELSE IF citem.encryptedMessage = Raised
                   THEN [base EXCEPT !.pc = "done", !.resp = FailedToCreate]
                 ELSE [base EXCEPT !.pc = "put", !.item = citem]
            ELSE [base EXCEPT !.pc = "put",
                              !.item = ServerlessItem(message_key, message_in, now')]]
  /\ UNCHANGED <<backend, faults, store, writer, direct, process>>

\* Mutant of PutItem: a failed condition is retried under the other key, up to
\* three attempts, before the collision is reported.
PutItem_Retry(r) ==
  /\ req[r].pc = "put"
  /\ IF AttributeNotExists(req[r].item)
       THEN /\ store' = put_item(req[r].item)
            /\ writer' = [writer EXCEPT ![req[r].item.messageKey.s] = r]
            /\ req' = [req EXCEPT ![r].pc = "done", ![r].puts = @ + 1,
                                  ![r].stored = TRUE,
                                  ![r].keyTaken = (store[req[r].key] # NoItem),
                                  ![r].resp = Resp(200, Absent, Absent,
                                                   StrV(req[r].key), Absent)]
       ELSE /\ store' = store
            /\ writer' = writer
            /\ IF req[r].puts < 2
                 THEN \E k \in KeySpace \ {req[r].key} :
                        req' = [req EXCEPT ![r].puts = @ + 1, ![r].key = k,
                                           ![r].item.messageKey = StrV(k)]
                 ELSE req' = [req EXCEPT ![r].pc = "done", ![r].puts = @ + 1,
                                         ![r].keyTaken = TRUE,
                                         ![r].resp = KeyCollision]
  /\ UNCHANGED <<backend, now, ticks, faults, direct, process>>

\* Mutant of PutItem: the item is written first and the collision is noticed
\* and reported afterwards.
PutItem_WriteThenReport(r) ==
  /\ req[r].pc = "put"
  /\ store' = put_item(req[r].item)
  /\ writer' = [writer EXCEPT ![req[r].item.messageKey.s] = r]
  /\ req' = [req EXCEPT ![r].pc = "done", ![r].puts = @ + 1,
                        ![r].stored = AttributeNotExists(req[r].item),
                        ![r].keyTaken = (store[req[r].key] # NoItem),
                        ![r].resp = IF AttributeNotExists(req[r].item)
                                      THEN Resp(200, Absent, Absent,
                                                StrV(req[r].key), Absent)
                                      ELSE KeyCollision]
  /\ UNCHANGED <<backend, now, ticks, faults, direct, process>>

\* table.put_item(Item=item, ConditionExpression=...) and the answer.
PutItem(r) ==
  /\ req[r].pc = "put"
  /\ IF AttributeNotExists(req[r].item)
       THEN /\ store' = put_item(req[r].item)
            /\ writer' = [writer EXCEPT ![req[r].item.messageKey.s] = r]
            /\ req' = [req EXCEPT ![r].pc = "done", ![r].puts = @ + 1,
                                  ![r].stored = TRUE,
                                  ![r].keyTaken = (store[req[r].key] # NoItem),
                                  ![r].resp = Resp(200, Absent, Absent,
                                                   StrV(req[r].key), Absent)]
       ELSE /\ store' = store
            /\ writer' = writer
            /\ req' = [req EXCEPT ![r].pc = "done", ![r].puts = @ + 1,
                                  ![r].keyTaken = (store[req[r].key] # NoItem),
                                  ![r].resp = KeyCollision]
  /\ UNCHANGED <<backend, now, ticks, faults, direct, process>>

\* Mutant of PutItemFails: the exception is swallowed and the generated key is
\* returned as if the record had been stored.
PutItemFails_Swallowed(r) ==
  /\ req[r].pc = "put"
  /\ faults < MaxFaults
  /\ faults' = faults + 1
  /\ req' = [req EXCEPT ![r].pc = "done", ![r].puts = @ + 1, ![r].faulted = TRUE,
                        ![r].resp = Resp(200, Absent, Absent, StrV(req[r].key), Absent)]
  /\ UNCHANGED <<backend, now, ticks, store, writer, direct, process>>

\* put_item raises a ClientError other than the failed condition, or times out.
PutItemFails(r) ==
  /\ req[r].pc = "put"
  /\ faults < MaxFaults
  /\ faults' = faults + 1
  /\ req' = [req EXCEPT ![r].pc = "done", ![r].puts = @ + 1, ![r].faulted = TRUE,
                        ![r].resp = FailedToCreate]
  /\ UNCHANGED <<backend, now, ticks, store, writer, direct, process>>

\* ------------------------------------------------------------------ Read
\* Mutant of GetItem: a key without a record is deleted all the same before
\* the 'no longer available' answer.
GetItem_DeleteAbsent(r, message_key) ==
  /\ NextToArrive(r)
  /\ LET base == [req[r] EXCEPT !.op = "read", !.key = message_key, !.gets = @ + 1,
                                !.arrived = now, !.by = backend]
     IN req' = [req EXCEPT ![r] =
          IF get_item(message_key) = NoItem
            THEN [base EXCEPT !.pc = "done", !.dels = @ + 1, !.resp = NotAvailable]
            ELSE [base EXCEPT !.pc = "check", !.item = get_item(message_key),
                              !.src = writer[message_key]]]
  /\ store' = IF get_item(message_key) = NoItem THEN delete_item(message_key) ELSE store
  /\ UNCHANGED <<backend, now, ticks, faults, writer, direct, process>>

\* get_message: table.get_item(Key={'messageKey': message_key})
GetItem(r, message_key) ==
  /\ NextToArrive(r)
  /\ LET base == [req[r] EXCEPT !.op = "read", !.key = message_key, !.gets = @ + 1,
                                !.arrived = now, !.by = backend]
     IN req' = [req EXCEPT ![r] =
          IF get_item(message_key) = NoItem
            THEN [base EXCEPT !.pc = "done", !.resp = NotAvailable]
            ELSE [base EXCEPT !.pc = "check", !.item = get_item(message_key),
                              !.src = writer[message_key]]]
  /\ UNCHANGED <<backend, now, ticks, faults, store, writer, direct, process>>

\* get_message: table.get_item(Key=...) is called without ConsistentRead, an
\* eventually consistent read: it may return the copy of a record whose
\* delete has already completed (here the delete of Read x).
GetItemStale(r, message_key, x) ==
  /\ NextToArrive(r)
  /\ req[x].op = "read" /\ req[x].pc = "done" /\ req[x].key = message_key
  /\ req[x].item # NoItem /\ req[x].dels = 1 /\ ~req[x].faulted
  /\ req' = [req EXCEPT ![r] =
       [@ EXCEPT !.op = "read", !.key = message_key, !.gets = @ + 1,
                 !.arrived = now, !.by = backend,
                 !.pc = "check", !.item = req[x].item, !.src = req[x].src]]
  /\ UNCHANGED <<backend, now, ticks, faults, store, writer, direct, process>>

\* Mutant of GetItemFails: the exception of get_item is not caught by the
\* handler and the framework answers 500.
GetItemFails_500(r, message_key) ==
  /\ NextToArrive(r)
  /\ faults < MaxFaults
  /\ faults' = faults + 1
  /\ req' = [req EXCEPT ![r] = [@ EXCEPT !.op = "read", !.key = message_key,
                                        !.gets = 1, !.faulted = TRUE, !.arrived = now,
                                        !.by = backend,
                                        !.pc = "done",
                                        !.resp = Resp(500, Absent, Absent, Absent,
                                                      StrV("Internal Server Error"))]]
  /\ UNCHANGED <<backend, now, ticks, store, writer, direct, process>>

\* get_item raises: the handler's except answers 'no longer available'.
GetItemFails(r, message_key) ==
  /\ NextToArrive(r)
  /\ faults < MaxFaults
  /\ faults' = faults + 1
  /\ req' = [req EXCEPT ![r] = [@ EXCEPT !.op = "read", !.key = message_key,
                                        !.gets = 1, !.faulted = TRUE, !.arrived = now,
                                        !.by = backend,
                                        !.pc = "done", !.resp = NotAvailable]]
  /\ UNCHANGED <<backend, now, ticks, store, writer, direct, process>>

\* current_time = int(time.time()) and the expiry test.
CheckExpiry(r, d) ==
  /\ req[r].pc = "check"
  /\ Elapse(d)
  /\ req' = [req EXCEPT ![r].current_time = now',
                        ![r].pc = IF IsExpired(req[r].item, now')
                                    THEN "delete_expired" ELSE "delete_live"]
  /\ UNCHANGED <<backend, faults, store, writer, direct, process>>

\* Mutant of DeleteExpired: the expired branch answers without calling
\* delete_item and leaves the removal to the store's TTL sweep.
DeleteExpired_Skip(r) ==
  /\ req[r].pc = "delete_expired"
  /\ req' = [req EXCEPT ![r].pc = "done", ![r].resp = NotAvailable]
  /\ UNCHANGED <<backend, now, ticks, faults, store, writer, direct, process>>

\* Mutant of DeleteExpired: the expired branch tells the caller that a message
\* existed, with a status and a text of its own.
DeleteExpired_Gone(r) ==
  /\ req[r].pc = "delete_expired"
  /\ store' = delete_item(req[r].key)
  /\ writer' = [writer EXCEPT ![req[r].key] = 0]
  /\ req' = [req EXCEPT ![r].pc = "done", ![r].dels = @ + 1,
                        ![r].resp = Resp(410, StrV("Message has expired"),
                                         Absent, Absent, Absent)]
  /\ UNCHANGED <<backend, now, ticks, faults, direct, process>>

\* the expired branch: delete_item, then 'no longer available'.
DeleteExpired(r) ==
  /\ req[r].pc = "delete_expired"
  /\ store' = delete_item(req[r].key)
  /\ writer' = [writer EXCEPT ![req[r].key] = 0]
  /\ req' = [req EXCEPT ![r].pc = "done", ![r].dels = @ + 1, ![r].resp = NotAvailable]
  /\ UNCHANGED <<backend, now, ticks, faults, direct, process>>

\* Mutant of DeleteLive: the answer is built (the message decrypted) first, and
\* delete_item is called only when that gave the message.
DeleteLive_DecryptFirst(r) ==
  /\ req[r].pc = "delete_live"
  /\ IF ReadResponse(req[r].item) = NotAvailable
       THEN /\ store' = store
            /\ writer' = writer
            /\ req' = [req EXCEPT ![r].pc = "done", ![r].resp = NotAvailable]
       ELSE /\ store' = delete_item(req[r].key)
            /\ writer' = [writer EXCEPT ![req[r].key] = 0]
            /\ req' = [req EXCEPT ![r].pc = "done", ![r].dels = @ + 1,
                                  ![r].resp = ReadResponse(req[r].item)]
  /\ UNCHANGED <<backend, now, ticks, faults, direct, process>>

\* the live branch: delete_item, and only then the answer is built from the
\* fetched item (decrypted by the Flask handler, as stored by the Lambda handler).
DeleteLive(r) ==
  /\ req[r].pc = "delete_live"
  /\ store' = delete_item(req[r].key)
  /\ writer' = [writer EXCEPT ![req[r].key] = 0]
  /\ req' = [req EXCEPT ![r].pc = "done", ![r].dels = @ + 1,
                        ![r].resp = ReadResponse(req[r].item)]
  /\ UNCHANGED <<backend, now, ticks, faults, direct, process>>

\* Mutant of DeleteItemFails: the failed delete is ignored and the handler goes
\* on to answer from the fetched item.
DeleteItemFails_Ignored(r) ==
  /\ req[r].pc \in {"delete_expired", "delete_live"}
  /\ faults < MaxFaults
  /\ faults' = faults + 1
  /\ req' = [req EXCEPT ![r].pc = "done", ![r].dels = @ + 1, ![r].faulted = TRUE,
                        ![r].resp = IF req[r].pc = "delete_live"
                                      THEN ReadResponse(req[r].item) ELSE NotAvailable]
  /\ UNCHANGED <<backend, now, ticks, store, writer, direct, process>>

\* delete_item raises on either branch: the except answers 'no longer available'.
DeleteItemFails(r) ==
  /\ req[r].pc \in {"delete_expired", "delete_live"}
  /\ faults < MaxFaults
  /\ faults' = faults + 1
  /\ req' = [req EXCEPT ![r].pc = "done", ![r].dels = @ + 1, ![r].faulted = TRUE,
                        ![r].resp = NotAvailable]
  /\ UNCHANGED <<backend, now, ticks, store, writer, direct, process>>

\* ------------------------------------------------------------------ environment
\* The store's background TTL sweep removes a record whose numeric ttl has passed.
TtlSweep(k, d) ==
  /\ store[k] # NoItem
  /\ store[k].ttl.t = "int"
  /\ Elapse(d)
  /\ store[k].ttl.n < now'
  /\ store' = [store EXCEPT ![k] = NoItem]
  /\ writer' = [writer EXCEPT ![k] = 0]
  /\ UNCHANGED <<backend, faults, req, direct, process>>

\* The service is moved from the Lambda handler to the Flask app, a new process
\* which is bound to the same table (MESSAGES_TABLE_NAME) and finds the records
\* the Lambda handler wrote.  It happens between requests.
Redeploy ==
  /\ backend = "serverless"
  /\ \A r \in Requests : ~Active(r)
  /\ backend' = "container"
  /\ process' = NotStarted
  /\ UNCHANGED <<now, ticks, faults, store, writer, req, direct>>

\* ------------------------------------------------------------------ direct calls
\* encrypt_message(plaintext), called directly in a process that has imported
\* the module and so has bound _MASTER_KEY.
EncryptCall(plaintext) ==
  /\ process.loads > 0 /\ process.phase # "failed"
  /\ Len(direct.enc) < MaxCalls
  /\ direct' = [direct EXCEPT !.enc =
       Append(@, [arg |-> plaintext,
                  out |-> encrypt_message(plaintext, FreshIV(Len(@) + 1))])]
  /\ UNCHANGED <<backend, now, ticks, faults, store, writer, req, process>>

\* A token after one of its parts was changed.  The HMAC covers version,
\* timestamp, IV and ciphertext: once any of them, or the HMAC itself, is
\* changed it verifies under no key; a token with a changed version byte or a
\* changed length is no token at all.
TokenParts == {"version", "length", "timestamp", "iv", "ciphertext", "hmac"}
Tamper(token, part) ==
  CASE part \in {"version", "length"} -> [token EXCEPT !.t = "str"]
    [] part = "iv" -> [token EXCEPT !.n = @ + 1, !.k = ""]
    [] part = "ciphertext" ->
         [token EXCEPT !.s = IF @ = "hi" THEN "" ELSE "hi", !.k = ""]
    [] part \in {"timestamp", "hmac"} -> [token EXCEPT !.k = ""]

\* The tokens the direct encrypt_message calls have returned.
Genuine == {direct.enc[i].out : i \in 1..Len(direct.enc)} \ {Raised}

\* What decrypt_message is called with: genuine tokens, tampered ones, the
\* same tokens made under another key, and values that are no tokens.
Ciphertexts ==
  Genuine
  \cup {Tamper(token, part) : token \in Genuine, part \in TokenParts}
  \cup {[token EXCEPT !.k = "another Fernet key"] : token \in Genuine}
  \cup {StrV(""), StrV("invalid_ciphertext_string"), NullV}

\* decrypt_message(ciphertext), called directly.
DecryptCall(ciphertext) ==
  /\ process.loads > 0 /\ process.phase # "failed"
  /\ Cardinality(direct.dec) < MaxCalls
  /\ direct' = [direct EXCEPT !.dec =
       @ \cup {[arg |-> ciphertext, out |-> decrypt_message(ciphertext)]}]
  /\ UNCHANGED <<backend, now, ticks, faults, store, writer, req, process>>

\* generate_random_id(length), called directly, once.
GenerateCall(length, draws) ==
  /\ direct.id.length = -1
  /\ direct' = [direct EXCEPT !.id =
       [length |-> length, out |-> generate_random_id(length, draws)]]
  /\ UNCHANGED <<backend, now, ticks, faults, store, writer, req, process>>

\* ------------------------------------------------------------------ inputs
\* Bodies of the concurrency specifications: a message and the shortest TTL.
CoreBodies ==
  {Body(StrV(m), StrV("15min"), Absent, Absent) : m \in {"", "hi"}}

\* Bodies of the input specification: every ttlOption case, a missing, null and
\* empty message, and bodies that carry 'messageKey' or 'ttl' fields of their own.
AllBodies ==
  {Body(StrV("hi"), o, Absent, Absent) :
     o \in {Absent, StrV("bogus")} \cup {StrV(n) : n \in TtlNames}}
  \cup {Body(m, o, Absent, Absent) :
     m \in {Absent, NullV, StrV("")}, o \in {Absent, StrV("1hour")}}
  \cup {Body(StrV("hi"), Absent, StrV(k), Absent) : k \in KeySpace}
  \cup {Body(StrV("hi"), Absent, Absent, t) : t \in {IntV(1), StrV("never"), NullV}}

\* Bodies of the cipher-failure specification: a message, and a null message,
\* which encrypt_message cannot encode.
CryptoBodies ==
  {Body(m, StrV("15min"), Absent, Absent) : m \in {StrV("hi"), NullV}}

\* Seconds that may pass before a clock reading: none, exactly a TTL (the
\* expiry boundary), one second more (expired).
CoreTicks == {0, TTL_OPTIONS["15min"], TTL_OPTIONS["15min"] + 1}
AllTicks == {0, 1, TTL_OPTIONS["15min"] + 1}

\* ------------------------------------------------------------------ specifications
\* The handlers' steps, for requests 1..N.
Handlers(N, Bodies, Ticks) ==
  \/ \E r \in 1..N, message_in \in Bodies, message_key \in KeySpace, d \in Ticks :
       CreateMessage(r, message_in, message_key, d)
  \/ \E r \in 1..N : PutItem(r)
  \/ \E r \in 1..N, message_key \in KeySpace : GetItem(r, message_key)
  \/ \E r \in 1..N, d \in Ticks : CheckExpiry(r, d)
  \/ \E r \in 1..N : DeleteExpired(r)
  \/ \E r \in 1..N : DeleteLive(r)

\* The process starts; reading the SSM parameter succeeds or fails.
Startup == \E ssm_ok \in BOOLEAN : ModuleImport(ssm_ok)

\* A store call that raises or times out.
Failures(N) ==
  \/ \E r \in 1..N : PutItemFails(r)
  \/ \E r \in 1..N, message_key \in KeySpace : GetItemFails(r, message_key)
  \/ \E r \in 1..N : DeleteItemFails(r)

Sweep(Ticks) == \E k \in KeySpace, d \in Ticks : TtlSweep(k, d)

\* Requests do not overlap: one arrives only when every earlier one has answered.
NoOverlap ==
  \A r \in Requests :
    (req[r].op = "none" /\ req'[r].op # "none") => \A x \in Requests : ~Active(x)

Next ==
  \/ Startup
  \/ Handlers(MaxReq, CoreBodies, CoreTicks)
  \/ Failures(MaxReq)
  \/ Sweep(CoreTicks)

\* Concurrent requests with one body; the clock stands or passes the expiry.
NextFair ==
  \/ Startup
  \/ Handlers(MaxReq, {Body(StrV("hi"), StrV("15min"), Absent, Absent)},
              {0, TTL_OPTIONS["15min"] + 1})
  \/ Failures(MaxReq)
  \/ Sweep({TTL_OPTIONS["15min"] + 1})

\* One request at a time against a healthy table whose reads are eventually
\* consistent.
NextStale ==
  /\ \/ Startup
     \/ Handlers(MaxReqSeq, CoreBodies, CoreTicks)
     \/ \E r \in 1..MaxReqSeq, message_key \in KeySpace, x \in 1..MaxReqSeq :
          GetItemStale(r, message_key, x)
  /\ NoOverlap

NextSeq ==
  /\ Startup \/ Handlers(MaxReqSeq, CoreBodies, CoreTicks) \/ Sweep(CoreTicks)
  /\ NoOverlap

NextIO ==
  \/ Startup
  \/ Handlers(MaxReqIO, AllBodies, AllTicks)
  \/ Failures(MaxReqIO)
  \/ Sweep(AllTicks)

NextMigrate ==
  /\ Startup \/ Handlers(MaxReqSeq, CoreBodies, CoreTicks) \/ Redeploy
  /\ NoOverlap

NextCrypto ==
  /\ \/ Startup
     \/ Handlers(MaxReqCrypto, CryptoBodies, {0})
     \/ \E r \in 1..MaxReqCrypto : CheckExpiry(r, TTL_OPTIONS["15min"] + 1)
     \/ Failures(MaxReqCrypto)
     \/ Redeploy
  /\ NoOverlap

\* What encrypt_message is called with: every text, and a value that is no str.
Plaintexts == {StrV(s) : s \in Texts} \cup {NullV}

NextCipher ==
  \/ Startup
  \/ \E plaintext \in Plaintexts : EncryptCall(plaintext)
  \/ \E ciphertext \in Ciphertexts : DecryptCall(ciphertext)

\* One Create, and generate_random_id called with every length up to MaxLen and
\* every outcome of its draws.
NextIds ==
  \/ Startup
  \/ \E message_in \in CoreBodies, message_key \in KeySpace :
       CreateMessage(1, message_in, message_key, 0)
  \/ PutItem(1)
  \/ \E length \in (IF direct.id.length = -1 THEN 0..MaxLen ELSE {}) :
       \E draws \in [1..length -> 1..Len(Alphabet)] : GenerateCall(length, draws)

\* Concurrent requests against one table whose calls may fail.
Spec == Init /\ [][Next]_vars
\* Concurrent requests where a step that can be taken is eventually taken: a
\* handler runs to its return, and a store call returns or raises.
SpecFair == Init /\ [][NextFair]_vars /\ WF_vars(NextFair)
\* One request at a time against a healthy table.
SpecSeq == Init /\ [][NextSeq]_vars
\* Few requests, every kind of request body.
SpecIO == Init /\ [][NextIO]_vars
\* One request at a time; get_item may return a stale copy.
SpecStale == Init /\ [][NextStale]_vars
\* One request at a time; the Flask app may take over the Lambda handler's table.
SpecMigrate == Init /\ [][NextMigrate]_vars
\* One request at a time, failing cipher calls and failing store calls.
SpecCrypto == Init /\ [][NextCrypto]_vars
\* The cipher functions called directly.
SpecCipher == Init /\ [][NextCipher]_vars
\* Key generation, through Create and called directly.
SpecIds == Init /\ [][NextIds]_vars

\* ------------------------------------------------------------------ vocabulary of the claims
\* Create request c has answered 200 with a messageKey.
CreatedOk(c) ==
  req[c].op = "create" /\ req[c].pc = "done" /\ req[c].resp.status = 200

ReturnedKey(c) == req[c].resp.messageKey.s

\* Read request r of key k has answered.
ReadDone(r, k) == req[r].op = "read" /\ req[r].pc = "done" /\ req[r].key = k

\* Read r answered with a message (not the 'no longer available' answer).
Delivered(r) ==
  req[r].op = "read" /\ req[r].pc = "done"
  /\ req[r].resp.status = 200 /\ req[r].resp # NotAvailable

\* Read r answered with the plaintext that Create c was given.
Delivers(r, c) == Delivered(r) /\ req[r].resp.message = req[c].body.message

\* The latest clock value request r has seen.
LastClock(r) == MaxOf(req[r].arrived, req[r].current_time)

\* The expiry Create c computed for its record.
ExpiryOf(c) == TtlValue(req[c].item)

ReadsBetween(c, r, k) ==
  {x \in Requests : c < x /\ x < r /\ req[x].op = "read" /\ req[x].key = k}

CreatesBetween(c, r, k) ==
  {x \in Requests : c < x /\ x < r /\ CreatedOk(x) /\ ReturnedKey(x) = k}

C2_AtMostOneReadDelivers ==
  \A r1, r2 \in Requests :
    (r1 # r2 /\ Delivered(r1) /\ Delivered(r2) /\ req[r1].src # 0) =>
      req[r1].src # req[r2].src

\* ------------------------------------------------------------------ C3
\* C3 (Spec): every record in the table carries the message only as a Fernet
\* token under 'encryptedMessage'; no record has a plaintext 'message' field.
C3_StoreHoldsOnlyCiphertext ==
  \A k \in KeySpace :
    store[k] # NoItem =>
      /\ store[k].message = Absent
      /\ store[k].encryptedMessage.t = "fernet"

\* ------------------------------------------------------------------ C4
\* C4 (SpecIO): a put_item never replaces or alters a record that is in the
\* table, and a Create whose generated key was held by a record when it
\* inserted does not answer with that key.
C4_KeyUniqueness ==
  /\ [][\A k \in KeySpace : store[k] # NoItem => store'[k] \in {store[k], NoItem}]_vars
  /\ [](\A c \in Requests :
          (req[c].op = "create" /\ req[c].pc = "done" /\ req[c].keyTaken) =>
            req[c].resp.messageKey # StrV(req[c].key))

C6_ExpiredReadRefusedAndDeleted ==
  \A r \in Requests :
    (/\ req[r].op = "read"
     /\ req[r].item # NoItem
     /\ req[r].pc \notin {"check"}
     /\ TtlValue(req[r].item) < req[r].current_time) =>
      /\ req[r].pc \in {"delete_expired", "done"}
      /\ req[r].pc = "done" =>
           /\ req[r].resp = NotAvailable
           /\ req[r].dels = 1
           /\ req[r].faulted \/ writer[req[r].key] # req[r].src

\* A Read of an expired record that no Read had asked for before and that the
\* sweep had not removed: refused, and the record deleted by the Read itself.
C6_Witness ==
  \E r \in Requests :
    /\ req[r].op = "read" /\ req[r].pc = "done"
    /\ req[r].item # NoItem /\ req[r].src # 0
    /\ TtlValue(req[r].item) < req[r].current_time
    /\ \A x \in Requests : (x # r /\ req[x].op = "read") => req[x].key # req[r].key
    /\ req[r].resp = NotAvailable
    /\ req[r].dels = 1 /\ ~req[r].faulted
    /\ store[req[r].key] = NoItem

\* ------------------------------------------------------------------ C7
\* C7 (SpecIO): a Create whose body has no 'message', or has 'message': null,
\* answers 400 and has made no put_item call.
C7_MissingMessageRejected ==
  \A c \in Requests :
    (/\ req[c].op = "create"
     /\ req[c].pc = "done"
     /\ req[c].body.message \in {Absent, NullV}) =>
      /\ req[c].resp.status = 400
      /\ req[c].puts = 0

\* ------------------------------------------------------------------ C8
\* C8 (SpecIO): a Create of plaintext p (a str, "" included) with one of the
\* four ttlOptions answers a key; the Read that fetches its record before the
\* expiry, with no store call failing, answers 200 with exactly message p and
\* that ttlOption.
C8_CreateReadRoundTrip ==
  \A c, r \in Requests :
    (/\ CreatedOk(c)
     /\ req[c].body.message.t = "str"
     /\ req[c].body.ttlOption \in {StrV(n) : n \in TtlNames}
     /\ req[c].body.messageKey = Absent
     /\ req[c].body.ttl = Absent
     /\ ReadDone(r, ReturnedKey(c))
     /\ req[r].src = c
     /\ ~req[r].faulted
     /\ req[r].current_time <= ExpiryOf(c)) =>
      /\ req[r].resp.status = 200
      /\ req[r].resp.message = req[c].body.message
      /\ req[r].resp.ttlOption = req[c].body.ttlOption

\* ------------------------------------------------------------------ C9
\* C9 (SpecIO): the ttl of every record in the table is the integer time its
\* Create read plus the seconds of the ttlOption the request resolved to
\* (15min 900, 1hour 3600, 1day 86400, 5days 432000; 5days when none or an
\* unknown one is given), whatever else the request body holds.
C9_TtlMapping ==
  LET Seconds(o) ==
        IF o = StrV("15min") THEN 900
        ELSE IF o = StrV("1hour") THEN 3600
        ELSE IF o = StrV("1day") THEN 86400
        ELSE 432000
  IN \A k \in KeySpace :
       store[k] # NoItem =>
         store[k].ttl =
           IntV(req[writer[k]].arrived + Seconds(req[writer[k]].body.ttlOption))

\* ------------------------------------------------------------------ C10
\* C10 (SpecIO): the record of a Create whose body is a message alone, without
\* ttlOption, has ttlOption '5days' and ttl = creation time + 432000, and the
\* Read that delivers that message answers ttlOption '5days'.
C10_DefaultTtl ==
  \A c \in Requests :
    (/\ req[c].op = "create"
     /\ req[c].body.message.t = "str"
     /\ req[c].body.ttlOption = Absent
     /\ req[c].body.messageKey = Absent
     /\ req[c].body.ttl = Absent) =>
      /\ \A k \in KeySpace :
           writer[k] = c =>
             /\ store[k].ttlOption = StrV("5days")
             /\ store[k].ttl = IntV(req[c].arrived + 432000)
      /\ \A r \in Requests :
           (Delivered(r) /\ req[r].src = c) => req[r].resp.ttlOption = StrV("5days")

\* ------------------------------------------------------------------ C11
\* C11 (SpecIO): a Create whose ttlOption is not one of the four names is not
\* refused and stores what a Create without ttlOption stores: ttlOption '5days'
\* and ttl = creation time + 432000.  Hence every ttlOption in the table, and
\* every ttlOption a Read answers, is one of the four names.
C11_UnknownTtlOption ==
  LET Known == {StrV(n) : n \in TtlNames}
      Unknown(c) ==
        /\ req[c].op = "create"
        /\ req[c].body.message.t = "str"
        /\ req[c].body.ttlOption.t = "str"
        /\ req[c].body.ttlOption \notin Known
        /\ req[c].body.messageKey = Absent
        /\ req[c].body.ttl = Absent
  IN /\ \A c \in Requests :
          Unknown(c) =>
            /\ req[c].resp.status # 400
            /\ \A k \in KeySpace :
                 writer[k] = c =>
                   /\ store[k].ttlOption = StrV("5days")
                   /\ store[k].ttl = IntV(req[c].arrived + 432000)
     /\ \A k \in KeySpace :
          store[k].ttlOption # Absent => store[k].ttlOption \in Known
     /\ \A r \in Requests :
          (Delivered(r) /\ req[r].resp.ttlOption # Absent) =>
            req[r].resp.ttlOption \in Known

\* ------------------------------------------------------------------ C12
\* C12 (Spec): every Read answers HTTP 200; a Read that found no record under
\* its key (never created, consumed, removed) and a Read that fetched an
\* expired record give one and the same answer, 'Message is no longer
\* available' with no other field.
C12_NoExistenceLeak ==
  \A r \in Requests :
    (req[r].op = "read" /\ req[r].pc = "done") =>
      /\ req[r].resp.status = 200
      /\ req[r].item = NoItem => req[r].resp = NotAvailable
      /\ TtlValue(req[r].item) < req[r].current_time => req[r].resp = NotAvailable

\* A Read of a key no Create ever drew and a Read that fetched an expired
\* record have both answered, with the same response.
C12_Witness ==
  \E r1, r2 \in Requests :
    /\ req[r1].op = "read" /\ req[r1].pc = "done" /\ ~req[r1].faulted
    /\ \A c \in Requests : req[c].op = "create" => req[c].key # req[r1].key
    /\ req[r2].op = "read" /\ req[r2].pc = "done" /\ ~req[r2].faulted
    /\ req[r2].item # NoItem
    /\ TtlValue(req[r2].item) < req[r2].current_time
    /\ req[r1].resp = NotAvailable
    /\ req[r2].resp = req[r1].resp

\* ------------------------------------------------------------------ C13
\* The Flask app's Read r fetched a live record whose 'encryptedMessage' does
\* not decrypt under the master key.
DecryptionFailed(r) ==
  /\ req[r].op = "read" /\ req[r].pc = "done" /\ req[r].by = "container"
  /\ req[r].item # NoItem
  /\ ~IsExpired(req[r].item, req[r].current_time)
  /\ decrypt_message(IF req[r].item.encryptedMessage = Absent
                       THEN StrV("") ELSE req[r].item.encryptedMessage) = Raised

InsertFailed(c) ==
  req[c].op = "create" /\ req[c].pc = "done" /\ req[c].puts >= 1 /\ ~req[c].stored

\* C14 (Spec): a Create whose insert failed, whatever the reason, answers HTTP
\* 500 and its response carries no messageKey.
C14_CreateFailureIs500 ==
  \A c \in Requests :
    InsertFailed(c) =>
      /\ req[c].resp.status = 500
      /\ req[c].resp.messageKey = Absent

\* One Create has failed on a key collision and another on a failing store
\* call; both were answered 500.
C14_Witness ==
  \E c1, c2 \in Requests :
    /\ InsertFailed(c1) /\ req[c1].keyTaken /\ ~req[c1].faulted
    /\ InsertFailed(c2) /\ req[c2].faulted
    /\ req[c1].resp.status = 500 /\ req[c2].resp.status = 500

\* ------------------------------------------------------------------ C15
\* C15 (Spec): a Read during which get_item or delete_item failed answers
\* 'Message is no longer available', the answer a Read of an absent key gets.
C15_ReadUnderStoreFailure ==
  \A r \in Requests :
    (req[r].op = "read" /\ req[r].pc = "done" /\ req[r].faulted) =>
      req[r].resp = NotAvailable

\* A Read whose delete_item failed on a live record (the record is still in
\* the table) and a Read of an absent key have got the same answer.
C15_Witness ==
  \E r, x \in Requests :
    /\ req[r].op = "read" /\ req[r].pc = "done" /\ req[r].faulted
    /\ req[r].dels = 1 /\ ~IsExpired(req[r].item, req[r].current_time)
    /\ store[req[r].key] = req[r].item
    /\ req[x].op = "read" /\ req[x].pc = "done" /\ ~req[x].faulted
    /\ req[x].item = NoItem
    /\ req[r].resp = req[x].resp

\* ------------------------------------------------------------------ C16
\* C16 as stated (Spec): a request during which a store call failed, a Read as
\* well as a Create, is not answered like a Read that found nothing.
C16_StoreFailureNotReportedAsNotFound ==
  \A q \in Requests :
    (req[q].pc = "done" /\ req[q].faulted) => req[q].resp # NotAvailable

\* C16 as amended: a Create during which the store failed answers 500 'Failed
\* to create message', which no Read answers; a Read during which the store
\* failed answers as a Read that found nothing does.
C16_StoreFailureOutcome ==
  \A q \in Requests :
    (req[q].pc = "done" /\ req[q].faulted) =>
      IF req[q].op = "create"
        THEN /\ req[q].resp = FailedToCreate
             /\ \A r \in Requests : req[r].op = "read" => req[r].resp # req[q].resp
        ELSE \A r \in Requests :
               (req[r].op = "read" /\ req[r].pc = "done" /\ req[r].item = NoItem) =>
                 req[r].resp = req[q].resp

\* A Create whose put_item failed, answered 500, next to a Read that found
\* nothing under the key.
C16_Witness ==
  \E c, r \in Requests :
    /\ req[c].op = "create" /\ req[c].pc = "done" /\ req[c].faulted
    /\ req[c].resp.status = 500
    /\ req[r].op = "read" /\ req[r].pc = "done" /\ req[r].item = NoItem
    /\ req[r].key = req[c].key
    /\ req[r].resp = NotAvailable

\* ------------------------------------------------------------------ C17
\* C17 as stated (SpecCipher): for every str p, encrypt_message(p) returns a
\* token, and decrypt_message of that token returns p.
C17_RoundTripEveryStr ==
  \A i \in 1..Len(direct.enc) :
    direct.enc[i].arg.t = "str" =>
      /\ direct.enc[i].out.t = "fernet"
      /\ \A d \in direct.dec : d.arg = direct.enc[i].out => d.out = direct.enc[i].arg

\* C17 as amended: the same for every str p that encodes as UTF-8, that is,
\* holds no lone surrogate; the empty str and text of two-, three- and
\* four-byte characters included.
C17_CipherRoundTrip ==
  \A i \in 1..Len(direct.enc) :
    (direct.enc[i].arg.t = "str" /\ Encodable(CodePoints(direct.enc[i].arg.s))) =>
      /\ direct.enc[i].out.t = "fernet"
      /\ \A d \in direct.dec : d.arg = direct.enc[i].out => d.out = direct.enc[i].arg

\* The empty str and a str of multi-byte characters have both been encrypted,
\* and decrypt_message has returned each from its token.
C17_Witness ==
  \E i, j \in 1..Len(direct.enc) :
    /\ direct.enc[i].arg = StrV("")
    /\ direct.enc[j].arg = StrV("\\u00e9\\u20ac")
    /\ [arg |-> direct.enc[i].out, out |-> StrV("")] \in direct.dec
    /\ [arg |-> direct.enc[j].out, out |-> StrV("\\u00e9\\u20ac")] \in direct.dec

\* ------------------------------------------------------------------ C18
\* C18 (SpecCipher): two successive encrypt_message calls with the same
\* plaintext return different tokens, and decrypt_message returns that
\* plaintext from either.
C18_CipherFreshness ==
  \A i, j \in 1..Len(direct.enc) :
    (/\ i < j
     /\ direct.enc[i].arg = direct.enc[j].arg
     /\ direct.enc[i].out # Raised) =>
      /\ direct.enc[j].out # Raised
      /\ direct.enc[i].out # direct.enc[j].out
      /\ \A d \in direct.dec :
           d.arg \in {direct.enc[i].out, direct.enc[j].out} => d.out = direct.enc[i].arg

\* The same plaintext was encrypted twice and both tokens were decrypted.
C18_Witness ==
  \E p \in Plaintexts :
    /\ Len(direct.enc) = 2
    /\ direct.enc[1].arg = p /\ direct.enc[2].arg = p
    /\ direct.enc[1].out # direct.enc[2].out
    /\ direct.dec = {[arg |-> direct.enc[1].out, out |-> p],
                     [arg |-> direct.enc[2].out, out |-> p]}
    /\ Cardinality(direct.dec) = 2

C21_KeyIndependentOfContent ==
  \A c1, c2 \in Requests :
    (/\ req[c1].op = "create" /\ req[c1].stored
     /\ req[c2].op = "create" /\ req[c2].stored
     /\ req[c1].key = req[c2].key) =>
      /\ req[c1].item.messageKey = req[c2].item.messageKey
      /\ req[c1].item.messageKey = StrV(req[c1].key)

\* ------------------------------------------------------------------ C22
\* C22 (Spec): the process that handles a request has loaded the master key
\* exactly once, before its first request; a process whose load failed handles
\* no request and holds no key; a loaded key never changes, and every token
\* in the table was made with it.
C22_MasterKeyAtStartup ==
  /\ \A r \in Requests :
       req[r].op # "none" => (process.loads = 1 /\ process.key = MASTER_KEY)
  /\ process.phase = "failed" =>
       /\ \A r \in Requests : req[r].op = "none"
       /\ process.key = NotStarted.key
  /\ \A k \in KeySpace :
       store[k].encryptedMessage.t = "fernet" =>
         store[k].encryptedMessage.k = process.key

\* ------------------------------------------------------------------ C23
\* C23 (SpecIO): no step changes a field of a record that is in the table: a
\* record stays as its Create inserted it until a delete or the TTL sweep
\* removes it.  The only writes are the insert, by a Create's put_item, of a
\* record under a key that holds none, and the removal of a record.
C23_RecordsNeverMutated ==
  [][\A k \in KeySpace :
       /\ store[k] # NoItem => store'[k] \in {store[k], NoItem}
       /\ (store[k] = NoItem /\ store'[k] # NoItem) =>
            \E c \in Requests :
              /\ req[c].op = "create" /\ req[c].pc = "put"
              /\ store'[k] = req[c].item
              /\ req'[c].stored]_vars

\* A Create's insert met the record of an earlier Create under its key; the
\* record is in the table as the earlier Create stored it.
C23_Witness ==
  \E c1, c2 \in Requests :
    /\ c1 # c2
    /\ req[c1].op = "create" /\ req[c1].stored
    /\ req[c2].op = "create" /\ req[c2].pc = "done" /\ req[c2].puts = 1
    /\ ~req[c2].stored /\ ~req[c2].faulted
    /\ req[c2].item.messageKey = req[c1].item.messageKey
    /\ store[req[c1].item.messageKey.s] = req[c1].item

\* ------------------------------------------------------------------ C24
\* The Flask app's Create c had a message that encrypt_message raised on.
EncryptionFailed(c) ==
  /\ req[c].op = "create" /\ req[c].pc = "done" /\ req[c].by = "container"
  /\ req[c].body.message # Absent
  /\ encrypt_message(req[c].body.message, FreshIV(c)) = Raised

\* C24 (SpecCrypto): a Create whose encryption failed gets the answer a Create
\* gets whose put_item raised; a Read whose decryption failed gets the answer
\* a Read of an absent key gets; no answer holds a token or names the cipher.
C24_CryptoFailuresIndistinguishable ==
  /\ \A c \in Requests :
       EncryptionFailed(c) =>
         /\ req[c].resp = FailedToCreate
         /\ \A x \in Requests :
              (req[x].op = "create" /\ req[x].pc = "done" /\ req[x].faulted) =>
                req[x].resp = req[c].resp
  /\ \A r \in Requests :
       DecryptionFailed(r) =>
         /\ req[r].resp = NotAvailable
         /\ \A x \in Requests :
              (/\ req[x].op = "read" /\ req[x].pc = "done"
               /\ req[x].item = NoItem /\ ~req[x].faulted) =>
                req[x].resp = req[r].resp
  /\ \A q \in Requests :
       /\ req[q].resp.message.t # "fernet"
       /\ req[q].resp.error \in {Absent, MessageRequired.error,
                                 KeyCollision.error, FailedToCreate.error}

\* A Read whose decryption failed next to a Read of an absent key, and a Create
\* whose encryption failed next to a Create whose put_item raised; the answers
\* of each pair are the same.
C24_Witness ==
  \E r, x, c, y \in Requests :
    /\ DecryptionFailed(r)
    /\ req[x].op = "read" /\ req[x].pc = "done" /\ req[x].item = NoItem
    /\ ~req[x].faulted /\ req[x].resp = req[r].resp
    /\ EncryptionFailed(c)
    /\ req[y].op = "create" /\ req[y].pc = "done" /\ req[y].faulted
    /\ req[y].resp = req[c].resp

\* ------------------------------------------------------------------ C25
\* C25 (SpecFair): a Read calls get_item once and, when it fetched a record,
\* delete_item once, on the live and on the expired branch alike, and that
\* call names the key the Read was asked for; a Read that fetched nothing calls
\* delete_item not at all; a Create calls put_item at most once.  Every
\* request that has arrived answers.
C25_BoundedStoreCalls ==
  /\ [](\A q \in Requests :
          /\ req[q].gets <= 1 /\ req[q].dels <= 1 /\ req[q].puts <= 1
          /\ req[q].op = "create" => (req[q].gets = 0 /\ req[q].dels = 0)
          /\ req[q].op = "read" => (req[q].gets = 1 /\ req[q].puts = 0)
          /\ (req[q].op = "read" /\ req[q].pc = "done") =>
               req[q].dels = (IF req[q].item # NoItem THEN 1 ELSE 0))
  /\ [][\A q \in Requests :
          (req'[q].dels > req[q].dels /\ ~req'[q].faulted) =>
            store' = [store EXCEPT ![req[q].key] = NoItem]]_vars
  /\ \A q \in Requests : (req[q].op # "none") ~> (req[q].pc = "done")

\* A Read of a live record and a Read of an expired record have both answered,
\* each after one get_item and one delete_item.
C25_Witness ==
  \E r1, r2 \in Requests :
    /\ req[r1].op = "read" /\ req[r1].pc = "done" /\ req[r1].item # NoItem
    /\ ~IsExpired(req[r1].item, req[r1].current_time)
    /\ req[r1].gets = 1 /\ req[r1].dels = 1
    /\ req[r2].op = "read" /\ req[r2].pc = "done" /\ req[r2].item # NoItem
    /\ IsExpired(req[r2].item, req[r2].current_time)
    /\ req[r2].gets = 1 /\ req[r2].dels = 1

\* ------------------------------------------------------------------ C26
\* C26 (SpecIO): the messageKey a successful Create answers is the primary key
\* under which its put_item stored the record, whatever fields its body holds.
C26_ReturnedKeyIsStoredKey ==
  \A c \in Requests :
    CreatedOk(c) =>
      /\ req[c].stored
      /\ req[c].item.messageKey = req[c].resp.messageKey

\* ------------------------------------------------------------------ C27
\* C27 (Spec): the delete_item call of a Read removes no record but the one
\* its get_item fetched: a live record that a later Create has inserted under
\* the key since, after the fetched one was removed, stays in the table.
C27_ReadDeletesOnlyWhatItFetched ==
  [][\A r \in Requests, k \in KeySpace :
       (/\ req[r].op = "read"
        /\ req'[r].dels > req[r].dels
        /\ store[k] # NoItem /\ ~IsExpired(store[k], now)
        /\ store'[k] = NoItem) =>
         writer[k] = req[r].src]_vars

\* ------------------------------------------------------------------ C28
\* C28 (SpecStale: get_item may return a stale copy of a deleted record): a
\* Read of key k that starts after a Read of k has returned the message, with
\* no Create storing under k in between, answers 'no longer available'.
C28_OneTimeReadUnderStaleGet ==
  \A r1, r2 \in Requests :
    (/\ r1 < r2
     /\ Delivered(r1)
     /\ ReadDone(r2, req[r1].key)
     /\ CreatesBetween(r1, r2, req[r1].key) = {}) =>
      req[r2].resp = NotAvailable

\* ------------------------------------------------------------------ C29
\* Read r fetched a live record and its delete_item call failed.
DeleteFailedOnLive(r) ==
  /\ req[r].op = "read" /\ req[r].pc = "done" /\ req[r].faulted
  /\ req[r].dels = 1 /\ ~IsExpired(req[r].item, req[r].current_time)

\* C29 (Spec): a Read answers with the message only when its delete_item call
\* has succeeded.  A Read whose delete_item failed on a live record answers
\* 'no longer available', the failing call leaves the table as it was, and a
\* later Read that fetches the same record before its expiry, with no call
\* failing, answers with the message.
C29_PlaintextOnlyAfterDelete ==
  /\ [](\A r \in Requests :
          /\ Delivered(r) => (req[r].dels = 1 /\ ~req[r].faulted)
          /\ DeleteFailedOnLive(r) =>
               /\ req[r].resp = NotAvailable
               /\ \A x \in Requests :
                    (/\ r < x /\ ReadDone(x, req[r].key)
                     /\ req[x].src = req[r].src /\ ~req[x].faulted
                     /\ ~IsExpired(req[x].item, req[x].current_time)) =>
                      /\ Delivered(x)
                      /\ req[x].resp.message = req[req[r].src].body.message)
  /\ [][\A r \in Requests :
          (req[r].pc = "delete_live" /\ req'[r].faulted) => store' = store]_vars

\* The delete_item of one Read failed on a live record, the record stayed, and
\* a later Read of the key got the message.
C29_Witness ==
  \E r, x \in Requests :
    /\ DeleteFailedOnLive(r) /\ req[r].resp = NotAvailable
    /\ r < x /\ ReadDone(x, req[r].key) /\ req[x].src = req[r].src
    /\ Delivers(x, req[r].src)

\* ------------------------------------------------------------------ C30
\* C30 (Spec): the message a Read of key k answers with is the message of a
\* Create whose put_item stored its record under k, and the item the Read
\* fetched is that record; no Read answers with what is stored under
\* another key.
C30_NoCrossKeyDelivery ==
  \A r \in Requests :
    Delivered(r) =>
      \E c \in Requests :
        /\ req[c].op = "create" /\ req[c].stored
        /\ req[c].item.messageKey = StrV(req[r].key)
        /\ req[r].item = req[c].item
        /\ req[r].resp.message = req[c].body.message

\* Records are under both keys, with different messages, and a Read of one
\* key has answered with that key's message.
C30_Witness ==
  \E r, c1, c2 \in Requests :
    /\ CreatedOk(c1) /\ CreatedOk(c2)
    /\ ReturnedKey(c1) # ReturnedKey(c2)
    /\ req[c1].body.message # req[c2].body.message
    /\ store[ReturnedKey(c2)] = req[c2].item
    /\ ReadDone(r, ReturnedKey(c1))
    /\ Delivers(r, c1)

\* ------------------------------------------------------------------ C31
\* Create c has answered with an error.
CreateFailed(c) ==
  req[c].op = "create" /\ req[c].pc = "done" /\ req[c].resp.status # 200

\* C31 (SpecIO): a Create that answers with an error (400, or 500 after an
\* encryption failure, a key collision or a failed put_item) has made at most
\* one put_item call, which stored nothing, and no step of it has inserted,
\* changed or removed a record.
C31_FailedCreateLeavesStore ==
  /\ [](\A c \in Requests :
          CreateFailed(c) =>
            /\ req[c].resp.status \in {400, 500}
            /\ ~req[c].stored /\ req[c].puts <= 1 /\ req[c].dels = 0
            /\ \A k \in KeySpace : writer[k] # c)
  /\ [][\A c \in Requests :
          (req'[c].op = "create" /\ req'[c] # req[c] /\ store' # store) =>
            req'[c].resp.status = 200]_vars

\* A Create whose message could not be encrypted has answered 500 while the
\* record of an earlier Create is in the table as that Create stored it.
C31_Witness ==
  \E c1, c2 \in Requests :
    /\ CreatedOk(c1) /\ c1 < c2
    /\ EncryptionFailed(c2) /\ CreateFailed(c2)
    /\ store[ReturnedKey(c1)] = req[c1].item
    /\ \A k \in KeySpace \ {ReturnedKey(c1)} : store[k] = NoItem

\* ------------------------------------------------------------------ C32
\* Read r fetched nothing: its get_item returned no record.
ReadFoundNothing(r) ==
  req[r].op = "read" /\ req[r].pc = "done" /\ req[r].gets = 1
  /\ ~req[r].faulted /\ req[r].item = NoItem

\* C32 (Spec): a Read whose key has no record when it is fetched ends in that
\* step with the 'no longer available' answer, issues no delete_item, and
\* leaves every record of the table as it was.
C32_AbsentReadTouchesNothing ==
  /\ [](\A r \in Requests :
          ReadFoundNothing(r) =>
            /\ req[r].dels = 0 /\ req[r].puts = 0
            /\ req[r].resp = NotAvailable)
  /\ [][\A r \in Requests :
          (req[r].op = "none" /\ req'[r].op = "read" /\ ~req'[r].faulted
           /\ store[req'[r].key] = NoItem) =>
            /\ ReadFoundNothing(r)'
            /\ store' = store /\ writer' = writer]_vars

\* A Read of a key nobody wrote has been refused while the record of a Create
\* under another key is still in the table, unread.
C32_Witness ==
  \E c, r \in Requests :
    /\ CreatedOk(c) /\ ReadFoundNothing(r)
    /\ req[r].key # ReturnedKey(c)
    /\ req[c].arrived <= req[r].arrived
    /\ store[ReturnedKey(c)] = req[c].item
    /\ store[req[r].key] = NoItem /\ writer[req[r].key] = 0

\* ------------------------------------------------------------------ C33
\* Read r has fetched a record and sampled the clock.
ClockSampled(r) ==
  req[r].op = "read" /\ req[r].item # NoItem /\ req[r].pc # "check"

\* C33 (Spec): the expiry test is strict.  A Read that samples a current time
\* equal to the fetched record's ttl takes the live branch and, its delete_item
\* succeeding, answers with the message the record's Create was given; a Read
\* is on the expired branch only when the ttl is strictly less than the
\* sampled time, and a Read that sampled a time not past the ttl is refused
\* only when a store call failed.
C33_ExpiryBoundaryStrict ==
  \A r \in Requests :
    ClockSampled(r) =>
      /\ TtlValue(req[r].item) = req[r].current_time =>
           /\ req[r].pc \in {"delete_live", "done"}
           /\ (req[r].pc = "done" /\ ~req[r].faulted) =>
                /\ req[r].src \in Requests
                /\ Delivers(r, req[r].src)
                /\ req[r].dels = 1
      /\ req[r].pc = "delete_expired" =>
           TtlValue(req[r].item) < req[r].current_time
      /\ (req[r].pc = "done" /\ ~req[r].faulted
          /\ TtlValue(req[r].item) >= req[r].current_time) => Delivered(r)

\* A record created with the 15-minute option was read exactly 900 seconds
\* later, in the very second of its ttl, and the message was delivered.
C33_Witness ==
  \E c, r \in Requests :
    /\ CreatedOk(c) /\ ClockSampled(r) /\ req[r].pc = "done"
    /\ req[r].src = c /\ req[r].item = req[c].item
    /\ req[c].item.ttl.t = "int"
    /\ req[r].current_time = req[c].item.ttl.n
    /\ req[r].current_time = req[c].arrived + TTL_OPTIONS["15min"]
    /\ Delivers(r, c)
    /\ store[req[r].key] = NoItem

\* ------------------------------------------------------------------ C34
\* The fetched record of Read r has a ttl that is missing or is no number.
FetchedWithoutExpiry(r) ==
  ClockSampled(r) /\ req[r].item.ttl.t # "int"

\* C34 (SpecIO): a fetched record whose ttl is missing or is no integer has
\* expiry 0.  The Read that fetched it takes the expired branch, calls
\* delete_item once, answers 'no longer available' and nothing of the record;
\* unless that call failed, the record is no longer in the table.
C34_NoExpiryMeansExpired ==
  \A r \in Requests :
    FetchedWithoutExpiry(r) =>
      /\ TtlValue(req[r].item) = 0
      /\ req[r].pc \in {"delete_expired", "done"}
      /\ req[r].pc = "done" =>
           /\ req[r].resp = NotAvailable
           /\ req[r].dels = 1
           /\ req[r].faulted \/ writer[req[r].key] # req[r].src

\* A record stored with 'ttl': 'never' or 'ttl': null from the request body
\* was read in the second it was written: refused, and removed from the table.
C34_Witness ==
  \E c, r \in Requests :
    /\ CreatedOk(c) /\ req[c].body.ttl \in {StrV("never"), NullV}
    /\ FetchedWithoutExpiry(r) /\ req[r].pc = "done"
    /\ req[r].src = c /\ req[r].item = req[c].item
    /\ req[r].current_time = req[c].arrived
    /\ req[r].resp = NotAvailable /\ ~req[r].faulted
    /\ store[req[r].key] = NoItem
====
